---- MODULE Spec2Model ----
(***************************************************************************)
(* Request handling of the Flask application in app.py: four static page   *)
(* routes, /search-interiors, /assistant-chat and /analyze-room, the       *)
(* shared upload directory, the calls to the hosted model, and the         *)
(* responses the framework sends to the client.                            *)
(***************************************************************************)
EXTENDS Integers, Sequences, FiniteSets, TLC

\* Number of requests the server receives in one behaviour.
MaxReq == 2

Req == 1..MaxReq

VARIABLES
    pc,        \* position of each request's handler
    req,       \* the request each handler was given
    user_msg,  \* assistant_chat: local user_msg
    filename,  \* analyze_room: local filename (sanitized)
    img,       \* analyze_room: local img
    uploads,   \* the upload directory: file name -> bytes
    calls,     \* the outbound call each request made to a hosted service
    resp       \* the response sent to the client

vars == <<pc, req, user_msg, filename, img, uploads, calls, resp>>

----------------------------------------------------------------------------
\* Inputs

Queries == {<<>>, <<" ">>, <<"s">>, <<" ", "s", " ">>}

Messages == {"", "hi"}

BodyKinds == {"malformed", "array", "object"}

\* Client-supplied file names, as sequences of characters.
FileNames == {<<>>, <<"a">>, <<"b">>, <<"/", "a">>, <<".", ".">>}

\* Uploaded bytes: a mode byte followed by pixel data, or junk.
FileContents == {<<"P", "1">>, <<"L", "2">>, <<"X">>}

ModelTexts == {"Looks cozy."}

ExcTexts == {"network error", "quota exceeded"}

NoReq ==
    [route |-> "none", hasQuery |-> FALSE, query |-> <<>>,
     bodyKind |-> "none", hasMessage |-> FALSE, message |-> "",
     hasImage |-> FALSE, rawName |-> <<>>, content |-> <<>>]

StaticRequest(path) == [NoReq EXCEPT !.route = path]

SearchRequests ==
    {[NoReq EXCEPT !.route = "/search-interiors"]} \cup
    {[NoReq EXCEPT !.route = "/search-interiors", !.hasQuery = TRUE, !.query = q] :
        q \in Queries}

ChatRequests ==
    {[NoReq EXCEPT !.route = "/assistant-chat", !.bodyKind = k] :
        k \in BodyKinds} \cup
    {[NoReq EXCEPT !.route = "/assistant-chat", !.bodyKind = "object",
                   !.hasMessage = TRUE, !.message = m] : m \in Messages}

AnalyzeRequests ==
    {[NoReq EXCEPT !.route = "/analyze-room"]} \cup
    {[NoReq EXCEPT !.route = "/analyze-room", !.hasImage = TRUE,
                   !.rawName = n, !.content = c] :
        n \in FileNames, c \in FileContents}

----------------------------------------------------------------------------
\* Responses

NoResp == [status |-> 0, ctype |-> "none", key |-> "none", reply |-> "", images |-> <<>>]

\* jsonify({"reply": s})
JsonReply(s) ==
    [status |-> 200, ctype |-> "json", key |-> "reply", reply |-> s, images |-> <<>>]

\* jsonify({"images": l})
JsonImages(l) ==
    [status |-> 200, ctype |-> "json", key |-> "images", reply |-> "", images |-> l]

\* render_template(name)
Page(name) ==
    [status |-> 200, ctype |-> "html", key |-> name, reply |-> "", images |-> <<>>]

\* What the framework sends when the view raises or returns None.
ErrorPage(code) ==
    [status |-> code, ctype |-> "html", key |-> "error", reply |-> "", images |-> <<>>]

----------------------------------------------------------------------------
\* Pure helpers

IsSpace(c) == c \in {" ", "\t", "\n"}

RECURSIVE LStrip(_)
LStrip(s) == IF s # <<>> /\ IsSpace(Head(s)) THEN LStrip(Tail(s)) ELSE s

RECURSIVE RStrip(_)
RStrip(s) ==
    IF s # <<>> /\ IsSpace(s[Len(s)]) THEN RStrip(SubSeq(s, 1, Len(s) - 1)) ELSE s

\* Variant: the query is used as received, without strip().
Strip_none(s) == s

\* str.strip()
Strip(s) == RStrip(LStrip(s))

\* request.args.get("query", "")
ArgsGet(r) == IF r.hasQuery THEN r.query ELSE <<>>

\* Variant: .get("message") with no default, None formatted into the prompt.
JsonGet_None(r) == IF r.hasMessage THEN r.message ELSE "None"

\* request.json.get("message", "")
JsonGet(r) == IF r.hasMessage THEN r.message ELSE ""

RECURSIVE MapSep(_)
MapSep(s) ==
    IF s = <<>> THEN <<>>
    ELSE <<IF Head(s) = "/" THEN " " ELSE Head(s)>> \o MapSep(Tail(s))

\* "_".join(s.split())
RECURSIVE JoinWords(_)
JoinWords(s) ==
    LET t == LStrip(s) IN
    IF t = <<>> THEN <<>>
    ELSE IF LStrip(Tail(t)) = <<>> THEN <<Head(t)>>
    ELSE IF IsSpace(t[2]) THEN <<Head(t), "_">> \o JoinWords(Tail(t))
    ELSE <<Head(t)>> \o JoinWords(Tail(t))

LegalChars == {"a", "b", "_", ".", "-"}

StripChars == {".", "_"}

RECURSIVE LStripDots(_)
LStripDots(s) ==
    IF s # <<>> /\ Head(s) \in StripChars THEN LStripDots(Tail(s)) ELSE s

RECURSIVE RStripDots(_)
RStripDots(s) ==
    IF s # <<>> /\ s[Len(s)] \in StripChars
    THEN RStripDots(SubSeq(s, 1, Len(s) - 1)) ELSE s

\* werkzeug.utils.secure_filename
secure_filename(s) ==
    RStripDots(LStripDots(SelectSeq(JoinWords(MapSep(s)), LAMBDA c : c \in LegalChars)))

NoImage == [ok |-> FALSE, mode |-> "none", px |-> <<>>, err |-> ""]

\* Image.open(filepath).convert("RGB") on the bytes found at filepath
ImageOpenConvert(dir, fn) ==
    IF fn \notin DOMAIN dir
    THEN [NoImage EXCEPT !.err = "No such file or directory"]
    ELSE IF Len(dir[fn]) >= 2 /\ dir[fn][1] \in {"P", "L"}
    THEN [ok |-> TRUE, mode |-> "RGB", px |-> Tail(dir[fn]), err |-> ""]
    ELSE [NoImage EXCEPT !.err = "cannot identify image file"]

\* Variant: the destination is opened without truncation.
OpenWb_notrunc(dir, fn) ==
    [n \in DOMAIN dir \cup {fn} |-> IF n \in DOMAIN dir THEN dir[n] ELSE <<>>]

\* Variant: the upload directory is emptied before each save.
OpenWb_clear(dir, fn) == [n \in {fn} |-> <<>>]

\* open(dst, "wb"): create or truncate
OpenWb(dir, fn) == [n \in DOMAIN dir \cup {fn} |-> IF n = fn THEN <<>> ELSE dir[n]]

\* copyfileobj(stream, dst): the bytes go in at offset 0 of the open file;
\* whatever another writer put beyond them since the open stays.
WriteAll(dir, fn, bytes) ==
    LET old == IF fn \in DOMAIN dir THEN dir[fn] ELSE <<>> IN
    [n \in DOMAIN dir \cup {fn} |->
        IF n = fn THEN bytes \o SubSeq(old, Len(bytes) + 1, Len(old)) ELSE dir[n]]

ChatPrompt(msg) == "You are Gruha, a helpful interior design assistant.\nUser: " \o msg

AnalysisPrompt == "You are an expert interior designer."

NoCall ==
    [made |-> FALSE, service |-> "none", prompt |-> "", image |-> NoImage,
     raised |-> FALSE, out |-> ""]

\* model.generate_content(...) with its arguments and its outcome
Call(prompt, image, raised, out) ==
    [made |-> TRUE, service |-> "gemini", prompt |-> prompt, image |-> image,
     raised |-> raised, out |-> out]

\* Outcomes of model.generate_content(...) followed by response.text
Outcomes ==
    {[raised |-> FALSE, out |-> t] : t \in ModelTexts} \cup
    {[raised |-> TRUE, out |-> e] : e \in ExcTexts}

----------------------------------------------------------------------------
\* State machine

Init ==
    /\ pc = [r \in Req |-> "idle"]
    /\ req = [r \in Req |-> NoReq]
    /\ user_msg = [r \in Req |-> ""]
    /\ filename = [r \in Req |-> <<>>]
    /\ img = [r \in Req |-> NoImage]
    /\ uploads \in {[n \in {} |-> <<>>], [n \in {<<"b">>} |-> <<"L", "0">>]}
    /\ calls = [r \in Req |-> NoCall]
    /\ resp = [r \in Req |-> NoResp]

\* Requests are numbered in the order the server dispatches them.
Dispatch(r) == pc[r] = "idle" /\ \A q \in Req : q < r => pc[q] # "idle"

Finish(r, request, response) ==
    /\ req' = [req EXCEPT ![r] = request]
    /\ resp' = [resp EXCEPT ![r] = response]
    /\ pc' = [pc EXCEPT ![r] = "done"]

home(r) ==
    /\ Dispatch(r)
    /\ Finish(r, StaticRequest("/"), Page("index.html"))
    /\ UNCHANGED <<user_msg, filename, img, uploads, calls>>

design_page(r) ==
    /\ Dispatch(r)
    /\ Finish(r, StaticRequest("/design"), Page("design.html"))
    /\ UNCHANGED <<user_msg, filename, img, uploads, calls>>

basic_designs(r) ==
    /\ Dispatch(r)
    /\ Finish(r, StaticRequest("/basic-designs"), Page("basic_designs.html"))
    /\ UNCHANGED <<user_msg, filename, img, uploads, calls>>

assistant_page(r) ==
    /\ Dispatch(r)
    /\ Finish(r, StaticRequest("/assistant"), Page("gruha_assistant.html"))
    /\ UNCHANGED <<user_msg, filename, img, uploads, calls>>

\* Variant: the view issues the photo search and returns its results.
search_interiors_fetch(r) ==
    /\ Dispatch(r)
    /\ \E request \in SearchRequests :
        LET query == Strip(ArgsGet(request)) IN
        IF query = <<>>
        THEN /\ Finish(r, request, JsonImages(<<>>))
             /\ UNCHANGED calls
        ELSE /\ Finish(r, request, JsonImages(<<"photo">>))
             /\ calls' = [calls EXCEPT ![r] =
                    [NoCall EXCEPT !.made = TRUE, !.service = "unsplash"]]
    /\ UNCHANGED <<user_msg, filename, img, uploads>>

\* The view returns jsonify for an empty query and otherwise falls off its
\* end, returning None, which the framework answers with a 500 error page.
search_interiors(r) ==
    /\ Dispatch(r)
    /\ \E request \in SearchRequests :
        LET query == Strip(ArgsGet(request)) IN
        IF query = <<>>
        THEN Finish(r, request, JsonImages(<<>>))
        ELSE Finish(r, request, ErrorPage(500))
    /\ UNCHANGED <<user_msg, filename, img, uploads, calls>>

\* request.json.get("message", ""), outside the try block.
assistant_chat(r) ==
    /\ Dispatch(r)
    /\ \E request \in ChatRequests :
        CASE request.bodyKind = "malformed" ->
                /\ Finish(r, request, ErrorPage(400))
                /\ UNCHANGED user_msg
          [] request.bodyKind = "array" ->
                /\ Finish(r, request, ErrorPage(500))
                /\ UNCHANGED user_msg
          [] OTHER ->
                /\ req' = [req EXCEPT ![r] = request]
                /\ user_msg' = [user_msg EXCEPT ![r] = JsonGet(request)]
                /\ pc' = [pc EXCEPT ![r] = "chat_generate"]
                /\ UNCHANGED resp
    /\ UNCHANGED <<filename, img, uploads, calls>>

\* Variant: the chat route reports the exception text as analyze_room does.
chat_generate_leak(r) ==
    /\ pc[r] = "chat_generate"
    /\ \E o \in Outcomes :
        /\ calls' = [calls EXCEPT ![r] = Call(ChatPrompt(user_msg[r]), NoImage, o.raised, o.out)]
        /\ resp' = [resp EXCEPT ![r] =
                IF o.raised THEN JsonReply("Assistant unavailable: " \o o.out)
                ELSE JsonReply(o.out)]
    /\ pc' = [pc EXCEPT ![r] = "done"]
    /\ UNCHANGED <<req, user_msg, filename, img, uploads>>

\* try: model.generate_content(prompt) ... except Exception
chat_generate(r) ==
    /\ pc[r] = "chat_generate"
    /\ \E o \in Outcomes :
        /\ calls' = [calls EXCEPT ![r] = Call(ChatPrompt(user_msg[r]), NoImage, o.raised, o.out)]
        /\ resp' = [resp EXCEPT ![r] =
                IF o.raised THEN JsonReply("Assistant unavailable right now.")
                ELSE JsonReply(o.out)]
    /\ pc' = [pc EXCEPT ![r] = "done"]
    /\ UNCHANGED <<req, user_msg, filename, img, uploads>>

\* Variant: no early return when the form has no "image" field.
analyze_room_noguard(r) ==
    /\ Dispatch(r)
    /\ \E request \in AnalyzeRequests :
        /\ req' = [req EXCEPT ![r] = request]
        /\ filename' = [filename EXCEPT ![r] = secure_filename(request.rawName)]
        /\ pc' = [pc EXCEPT ![r] = "save"]
        /\ UNCHANGED resp
    /\ UNCHANGED <<user_msg, img, uploads, calls>>

\* Variant: file.save is left out, the handler goes straight to Image.open.
analyze_room_nosave(r) ==
    /\ Dispatch(r)
    /\ \E request \in AnalyzeRequests :
        IF ~request.hasImage
        THEN /\ Finish(r, request, JsonReply("No image received."))
             /\ UNCHANGED filename
        ELSE /\ req' = [req EXCEPT ![r] = request]
             /\ filename' = [filename EXCEPT ![r] = secure_filename(request.rawName)]
             /\ pc' = [pc EXCEPT ![r] = "reopen"]
             /\ UNCHANGED resp
    /\ UNCHANGED <<user_msg, img, uploads, calls>>

\* The "image" check, secure_filename and the path join.
analyze_room(r) ==
    /\ Dispatch(r)
    /\ \E request \in AnalyzeRequests :
        IF ~request.hasImage
        THEN /\ Finish(r, request, JsonReply("No image received."))
             /\ UNCHANGED filename
        ELSE /\ req' = [req EXCEPT ![r] = request]
             /\ filename' = [filename EXCEPT ![r] = secure_filename(request.rawName)]
             /\ pc' = [pc EXCEPT ![r] = "save"]
             /\ UNCHANGED resp
    /\ UNCHANGED <<user_msg, img, uploads, calls>>

\* Variant: a per-file lock held from the open to the reopen.
save_open_locked(r) ==
    /\ pc[r] = "save"
    /\ \A q \in Req \ {r} :
        ~(pc[q] \in {"write", "reopen"} /\ filename[q] = filename[r])
    /\ IF filename[r] = <<>>
       THEN /\ resp' = [resp EXCEPT ![r] = ErrorPage(500)]
            /\ pc' = [pc EXCEPT ![r] = "done"]
            /\ UNCHANGED uploads
       ELSE /\ uploads' = OpenWb(uploads, filename[r])
            /\ pc' = [pc EXCEPT ![r] = "write"]
            /\ UNCHANGED resp
    /\ UNCHANGED <<req, user_msg, filename, img, calls>>

\* file.save(filepath), first half: open the destination for writing.  An
\* empty sanitized name makes filepath the upload directory itself, open
\* raises and nothing catches it.
save_open(r) ==
    /\ pc[r] = "save"
    /\ IF filename[r] = <<>>
       THEN /\ resp' = [resp EXCEPT ![r] = ErrorPage(500)]
            /\ pc' = [pc EXCEPT ![r] = "done"]
            /\ UNCHANGED uploads
       ELSE /\ uploads' = OpenWb(uploads, filename[r])
            /\ pc' = [pc EXCEPT ![r] = "write"]
            /\ UNCHANGED resp
    /\ UNCHANGED <<req, user_msg, filename, img, calls>>

\* file.save(filepath), second half: copy the upload into the file.
save_write(r) ==
    /\ pc[r] = "write"
    /\ uploads' = WriteAll(uploads, filename[r], req[r].content)
    /\ pc' = [pc EXCEPT ![r] = "reopen"]
    /\ UNCHANGED <<req, user_msg, filename, img, calls, resp>>

\* try: img = Image.open(filepath).convert("RGB") ... except Exception
image_open(r) ==
    /\ pc[r] = "reopen"
    /\ LET i == ImageOpenConvert(uploads, filename[r]) IN
        IF i.ok
        THEN /\ img' = [img EXCEPT ![r] = i]
             /\ pc' = [pc EXCEPT ![r] = "generate"]
             /\ UNCHANGED resp
        ELSE /\ resp' = [resp EXCEPT ![r] = JsonReply("AI analysis failed: " \o i.err)]
             /\ pc' = [pc EXCEPT ![r] = "done"]
             /\ UNCHANGED img
    /\ UNCHANGED <<req, user_msg, filename, uploads, calls>>

\* try: model.generate_content([prompt, img]) ... except Exception
analyze_generate(r) ==
    /\ pc[r] = "generate"
    /\ \E o \in Outcomes :
        /\ calls' = [calls EXCEPT ![r] = Call(AnalysisPrompt, img[r], o.raised, o.out)]
        /\ resp' = [resp EXCEPT ![r] =
                IF o.raised THEN JsonReply("AI analysis failed: " \o o.out)
                ELSE JsonReply(o.out)]
    /\ pc' = [pc EXCEPT ![r] = "done"]
    /\ UNCHANGED <<req, user_msg, filename, img, uploads>>

Step(r) ==
    \/ home(r)
    \/ design_page(r)
    \/ basic_designs(r)
    \/ assistant_page(r)
    \/ search_interiors(r)
    \/ assistant_chat(r)
    \/ chat_generate(r)
    \/ analyze_room(r)
    \/ save_open(r)
    \/ save_write(r)
    \/ image_open(r)
    \/ analyze_generate(r)

\* Requests handled concurrently, steps interleaved in any order.
Next == \E r \in Req : Step(r)

Spec == Init /\ [][Next]_vars

\* Requests handled one after the other.
NextSeq == \E r \in Req : (\A q \in Req \ {r} : pc[q] \in {"idle", "done"}) /\ Step(r)

SeqSpec == Init /\ [][NextSeq]_vars

----------------------------------------------------------------------------
\* Properties

IsSearch(r) == req[r].route = "/search-interiors"

IsChat(r) == req[r].route = "/assistant-chat"

IsAnalyze(r) == req[r].route = "/analyze-room"

HasUpload(r) == IsAnalyze(r) /\ req[r].hasImage

\* C1: every request to /search-interiors, /assistant-chat or /analyze-room,
\* whatever fails while it is handled, ends in a 200-status JSON response.
C1_AllFailuresEndIn200Json ==
    \A r \in Req :
        (pc[r] = "done" /\ (IsSearch(r) \/ IsChat(r) \/ IsAnalyze(r)))
            => resp[r].status = 200 /\ resp[r].ctype = "json"

\* C2: when the model call raises, the request completes with a JSON reply:
\* the fixed fallback on /assistant-chat, "AI analysis failed: " followed by
\* the exception text on /analyze-room.
C2_ModelFailureReplies ==
    \A r \in Req :
        (calls[r].made /\ calls[r].raised) =>
            /\ pc[r] = "done"
            /\ IsChat(r) => resp[r] = JsonReply("Assistant unavailable right now.")
            /\ IsAnalyze(r) => resp[r] = JsonReply("AI analysis failed: " \o calls[r].out)

C2_Witness ==
    \E a, b \in Req :
        /\ IsChat(a) /\ calls[a].raised /\ pc[a] = "done"
        /\ IsAnalyze(b) /\ calls[b].raised /\ pc[b] = "done"

\* C3: an /analyze-room request without an "image" field is answered in one
\* step with {"reply": "No image received."}; that step writes nothing to
\* the upload directory and calls no hosted service, and the request takes
\* no step after it.
C3_NoImageStep ==
    \A r \in Req :
        (pc[r] = "idle" /\ pc'[r] # "idle" /\ req'[r].route = "/analyze-room"
            /\ ~req'[r].hasImage) =>
                /\ pc'[r] = "done"
                /\ resp'[r] = JsonReply("No image received.")
                /\ uploads' = uploads
                /\ calls' = calls

C3_NoImageNoAction == [][C3_NoImageStep]_vars

C3_Witness ==
    \E r \in Req :
        /\ IsAnalyze(r) /\ ~req[r].hasImage /\ pc[r] = "done"
        /\ resp[r] = JsonReply("No image received.")
        /\ ~calls[r].made

Superseded(r) ==
    \E q \in Req :
        /\ q > r
        /\ HasUpload(q)
        /\ filename[q] = filename[r]
        /\ pc[q] \in {"write", "reopen", "generate", "done"}

Saved(r) ==
    HasUpload(r) /\ filename[r] # <<>> /\ pc[r] \in {"reopen", "generate", "done"}

\* C5: with uploads handled one after the other, the file under a name
\* holds exactly the content of the latest upload saved under that name,
\* and the image a request passes to the model is decoded from its own
\* upload, never from an earlier one.
C5_SecondUploadWins ==
    \A r \in Req :
        Saved(r) =>
            /\ ~Superseded(r) =>
                (filename[r] \in DOMAIN uploads /\ uploads[filename[r]] = req[r].content)
            /\ calls[r].made =>
                (calls[r].image.ok /\ calls[r].image.px = Tail(req[r].content))

C5_Witness ==
    \E a, b \in Req :
        /\ a < b
        /\ Saved(a) /\ Saved(b)
        /\ filename[a] = filename[b]
        /\ req[a].content # req[b].content
        /\ calls[a].made /\ calls[b].made
        /\ calls[b].image.px # Tail(req[a].content)
        /\ uploads[filename[b]] = req[b].content

\* C6: a request at its reopen step finds a file at its path, and the
\* image it passes to the model is the one it got from that reopen.
C6_FileExistsAtReopen ==
    \A r \in Req :
        /\ pc[r] = "reopen" => (HasUpload(r) /\ filename[r] \in DOMAIN uploads)
        /\ pc[r] = "generate" => (img[r].ok /\ ~calls[r].made)
        /\ (IsAnalyze(r) /\ calls[r].made) => calls[r].image = img[r]

C6_Witness ==
    \E a, b \in Req :
        /\ a # b
        /\ pc[a] = "reopen" /\ pc[b] = "write"
        /\ filename[a] = filename[b]
        /\ filename[a] \in DOMAIN uploads

\* C7: /search-interiors with the query absent, empty or all whitespace is
\* answered with {"images": []} and makes no outbound call.
C7_EmptyQuery ==
    \A r \in Req :
        (IsSearch(r) /\ pc[r] = "done"
            /\ (~req[r].hasQuery \/ \A i \in 1..Len(req[r].query) : IsSpace(req[r].query[i])))
            => resp[r] = JsonImages(<<>>) /\ calls[r] = NoCall

C7_Witness ==
    \E a, b \in Req :
        /\ IsSearch(a) /\ pc[a] = "done" /\ ~req[a].hasQuery
        /\ IsSearch(b) /\ pc[b] = "done" /\ req[b].query = <<" ">>
        /\ resp[b] = JsonImages(<<>>)

\* C8: /search-interiors with a query that is not empty after stripping
\* makes no outbound call and produces no JSON payload.
C8_NonEmptyQuery ==
    \A r \in Req :
        (IsSearch(r) /\ pc[r] = "done" /\ req[r].hasQuery
            /\ \E i \in 1..Len(req[r].query) : ~IsSpace(req[r].query[i]))
            => /\ calls[r] = NoCall
               /\ resp[r].ctype # "json"
               /\ resp[r].key # "images"

C8_Witness ==
    \E r \in Req :
        /\ IsSearch(r) /\ pc[r] = "done"
        /\ req[r].query = <<" ", "s", " ">>
        /\ resp[r].status = 500

\* C9: while a request sits between its write and its reopen, nothing stops
\* another request from opening or writing the same file, so a request can
\* pass to the model an image decoded from another request's upload.
C9_NoLocking ==
    \A a, b \in Req :
        (a # b /\ pc[a] = "reopen" /\ filename[b] = filename[a]) =>
            /\ pc[b] = "save" => ENABLED save_open(b)
            /\ pc[b] = "write" => ENABLED save_write(b)

C9_Witness ==
    \E a, b \in Req :
        /\ a # b
        /\ HasUpload(a) /\ HasUpload(b)
        /\ filename[a] = filename[b]
        /\ req[a].content # req[b].content
        /\ calls[a].made
        /\ calls[a].image.px = Tail(req[b].content)
        /\ calls[a].image.px # Tail(req[a].content)

\* C10: the upload directory never loses an entry, and a step that changes
\* it is a save step of an /analyze-room request carrying an image, which
\* changes only the entry of that request's sanitized filename.
C10_Step ==
    /\ DOMAIN uploads \subseteq DOMAIN uploads'
    /\ uploads' # uploads =>
        \E r \in Req :
            /\ HasUpload(r)
            /\ pc[r] \in {"save", "write"}
            /\ pc'[r] # pc[r]
            /\ filename[r] \in DOMAIN uploads'
            /\ \A n \in DOMAIN uploads' :
                n # filename[r] => (n \in DOMAIN uploads /\ uploads'[n] = uploads[n])

C10_UploadsFrame == [][C10_Step]_vars

C10_Witness ==
    /\ DOMAIN uploads = {<<"a">>, <<"b">>}
    /\ uploads[<<"b">>] = <<"L", "0">>
    /\ \E r \in Req : Saved(r) /\ filename[r] = <<"a">> /\ pc[r] = "done"
    /\ \E r \in Req : pc[r] = "done" /\ ~IsAnalyze(r)

====
